---- MODULE Spec2Model ----
(***************************************************************************)
(* A model of the live match-state servers of crickprobd/sever.            *)
(*                                                                         *)
(* The repository holds three revisions of one socket.io server:           *)
(*   "patch"     src/index.js lines 93-277: deepDiffOps, immediate emits   *)
(*   "batchDiff" src/unnamed/part_000: diffObjects, 500ms bulk flush       *)
(*   "batchJson" src/unnamed/part_001: JSON comparison, 500ms bulk flush   *)
(* (src/index.js lines 1-91 is an older revision that broadcasts the whole *)
(* Document on every publish; it has no diff, no batching and is not       *)
(* modelled.)  The variable `server` says which program is running.        *)
(*                                                                         *)
(* Node runs every handler and the timer callback to completion, so each   *)
(* handler is one atomic action.                                           *)
(***************************************************************************)
EXTENDS Integers, Sequences, FiniteSets, TLC

VARIABLES
    server,          \* which of the three programs runs (fixed by Init)
    state,           \* the store: tenant key -> Document, for the keys present
    rooms,           \* socket.io room membership: connection -> set of rooms
    pendingUpdates,  \* the batching servers' queue: tenant key -> entries
    emitted,         \* what the last handler or timer run handed to socket.io
    owed,            \* history: per tenant, the accepted entries not yet seen in a bulk-update, with the ticks each has waited
    lastOp,          \* history: the last handler run and its inputs
    fnIn,            \* pure-function specifications: the arguments
    fnOut            \* pure-function specifications: the result

vars == <<server, state, rooms, pendingUpdates, emitted, owed, lastOp, fnIn, fnOut>>

(***************************************************************************)
(* JavaScript values.  Every value is a record tagged by its type, so that *)
(* values of different types can be compared.  An object is a function     *)
(* from its own keys to values (key order is not modelled).                *)
(***************************************************************************)
Undef == [t |-> "undefined"]
Null == [t |-> "null"]
Num(n) == [t |-> "number", n |-> n]
Arr(s) == [t |-> "array", e |-> s]
Obj(f) == [t |-> "object", f |-> f]
NoFields == [k \in {} |-> Undef]
EmptyObj == Obj(NoFields)
EmptyArr == Arr(<<>>)

(***************************************************************************)
(* Strings that the code splits or joins on "." (property keys and patch   *)
(* paths) are modelled by their list of dot-free segments: the string      *)
(* "a.b" is <<"a","b">>, "a" is <<"a">> and "" is <<"">>.  Joining two     *)
(* strings with a "." is then the concatenation of their segment lists.    *)
(***************************************************************************)
EmptyString == <<"">>
Key(s) == <<s>>
Field(k, v) == (k :> v)
Digits == <<"0", "1", "2", "3", "4", "5">>
IndexKey(i) == Key(Digits[i + 1])

RECURSIVE SetToSeq(_)
SetToSeq(S) ==
    IF S = {} THEN <<>>
    ELSE LET x == CHOOSE y \in S : TRUE IN <<x>> \o SetToSeq(S \ {x})

RECURSIVE Flatten(_)
Flatten(ss) == IF ss = <<>> THEN <<>> ELSE Head(ss) \o Flatten(Tail(ss))

Range(s) == {s[i] : i \in DOMAIN s}

\* Truthiness of a value (the tests `x && ...`, `x || ...`, `if (x)`, `!x`).
Truthy(v) ==
    CASE v.t = "undefined" -> FALSE
      [] v.t = "null" -> FALSE
      [] v.t = "number" -> v.n # 0
      [] v.t = "string" -> v.s # <<>>
      [] OTHER -> TRUE

\* typeof v === "object" && v !== null  (true of arrays as well)
IsObjectLike(v) == v.t \in {"object", "array"}

\* Object.keys(v): own enumerable keys; an array's keys are its indices.
ObjectKeys(v) ==
    CASE v.t = "object" -> DOMAIN v.f
      [] v.t = "array" -> {IndexKey(i - 1) : i \in DOMAIN v.e}
      [] OTHER -> {}

\* names every object, array and number inherits from its prototype
Fn == [t |-> "function"]
InheritedKeys == {Key("toString"), Key("constructor")}
Inherited(key) == IF key \in InheritedKeys THEN Fn ELSE Undef

\* v[key]: an own property, else an inherited one, else undefined (v is
\* never null or undefined where the code reads a property of it).
GetProp(v, key) ==
    CASE v.t = "object" -> IF key \in DOMAIN v.f THEN v.f[key] ELSE Inherited(key)
      [] v.t = "array" ->
            IF \E i \in DOMAIN v.e : IndexKey(i - 1) = key
            THEN v.e[CHOOSE i \in DOMAIN v.e : IndexKey(i - 1) = key]
            ELSE Inherited(key)
      [] v.t \in {"number", "function"} -> Inherited(key)
      [] OTHER -> Undef

\* a !== b: primitives compare by value; two objects or arrays that come
\* from different payloads are different references, whatever they hold.
StrictNotEqual(a, b) ==
    IF IsObjectLike(a) /\ IsObjectLike(b) THEN TRUE ELSE a # b

(***************************************************************************)
(* JSON.stringify.  The text is modelled by the value it denotes: fields   *)
(* holding undefined or a function are left out, such array elements are   *)
(* written as null, and JSON.stringify of undefined or of a function is    *)
(* undefined, not a string.                                                *)
(***************************************************************************)
RECURSIVE JsonText(_)
JsonText(v) ==
    CASE v.t = "object" ->
            LET kept == {k \in DOMAIN v.f : v.f[k] \notin {Undef, Fn}}
            IN Obj([k \in kept |-> JsonText(v.f[k])])
      [] v.t = "array" ->
            Arr([i \in DOMAIN v.e |->
                    IF v.e[i] \in {Undef, Fn} THEN Null ELSE JsonText(v.e[i])])
      [] OTHER -> v

JSONstringify(v) ==
    IF v \in {Undef, Fn} THEN Undef ELSE [t |-> "string", json |-> JsonText(v)]

(***************************************************************************)
(* src/index.js: isPlainObject and deepDiffOps                             *)
(***************************************************************************)
isPlainObject(v) == v.t = "object"
IsArray(v) == v.t = "array"

addOp(path, value) == [op |-> "set", path |-> path, value |-> value]

\* a differ that compares two arrays by their length alone
ArrayChangedByLength(p, n) == Len(p.e) # Len(n.e)

\* p.length !== n.length || p.some((v, i) => JSON.stringify(v) !== JSON.stringify(n[i]))
ArrayChanged(p, n) ==
    \/ Len(p.e) # Len(n.e)
    \/ \E i \in DOMAIN p.e : JSONstringify(p.e[i]) # JSONstringify(n.e[i])

\* a path that names the key alone, without the path of its parent
JoinPathKeyOnly(basePath, key) == key

\* `${basePath}.${key}` when basePath is not the empty string, else key
JoinPath(basePath, key) ==
    IF basePath # EmptyString THEN basePath \o key ELSE key

RECURSIVE deepDiffOps(_, _, _)
deepDiffOps(prev, next, basePath) ==
    LET prevKeys == IF isPlainObject(prev) THEN ObjectKeys(prev) ELSE {}
        nextKeys == IF isPlainObject(next) THEN ObjectKeys(next) ELSE {}
        allKeys == SetToSeq(prevKeys) \o SetToSeq(nextKeys \ prevKeys)
        opsFor(key) ==
            LET p == IF isPlainObject(prev) THEN GetProp(prev, key) ELSE Undef
                n == IF isPlainObject(next) THEN GetProp(next, key) ELSE Undef
                path == JoinPath(basePath, key)
            IN IF n = Undef THEN <<addOp(path, Undef)>>
               ELSE IF isPlainObject(p) /\ isPlainObject(n)
                    THEN deepDiffOps(p, n, path)
               ELSE IF IsArray(p) /\ IsArray(n)
                    THEN IF ArrayChanged(p, n) THEN <<addOp(path, n)>> ELSE <<>>
               ELSE IF JSONstringify(p) # JSONstringify(n)
                    THEN <<addOp(path, n)>>
                    ELSE <<>>
    IN Flatten([i \in DOMAIN allKeys |-> opsFor(allKeys[i])])

(***************************************************************************)
(* src/unnamed/part_000: diffObjects                                       *)
(***************************************************************************)
RECURSIVE diffObjects(_, _)
diffObjects(oldObj, newObj) ==
    LET keys == ObjectKeys(newObj)
        nested(key) ==
            LET o == GetProp(oldObj, key)
            IN diffObjects(IF Truthy(o) THEN o ELSE EmptyObj, GetProp(newObj, key))
        changed ==
            {key \in keys :
                IF IsObjectLike(GetProp(newObj, key))
                THEN ObjectKeys(nested(key)) # {}
                ELSE GetProp(newObj, key) # GetProp(oldObj, key)}
    IN Obj([key \in changed |->
                IF IsObjectLike(GetProp(newObj, key))
                THEN nested(key)
                ELSE GetProp(newObj, key)])


(***************************************************************************)
(* Tenant keys.  A caller-supplied identifier is undefined, null, a number *)
(* or a string; a string is its list of characters.  A tenant key (and a   *)
(* room name) is a list of characters.                                     *)
(***************************************************************************)
Str(chars) == [t |-> "string", s |-> chars]
DefaultKey == <<"d", "e", "f", "a", "u", "l", "t">>
IsSpace(ch) == ch = " "

\* String(userId), for the identifiers the model supplies
ToChars(userId) ==
    CASE userId.t = "string" -> userId.s
      [] userId.t = "number" -> <<Digits[userId.n + 1]>>
      [] userId.t = "null" -> <<"n", "u", "l", "l">>
      [] OTHER -> <<"u", "n", "d", "e", "f", "i", "n", "e", "d">>

RECURSIVE TrimStart(_)
TrimStart(s) ==
    IF s # <<>> /\ IsSpace(Head(s)) THEN TrimStart(Tail(s)) ELSE s

RECURSIVE TrimEnd(_)
TrimEnd(s) ==
    IF s # <<>> /\ IsSpace(s[Len(s)]) THEN TrimEnd(SubSeq(s, 1, Len(s) - 1)) ELSE s

Trim(s) == TrimEnd(TrimStart(s))

\* (userId && String(userId).trim()) || 'default'
keyFor(userId) ==
    IF Truthy(userId) /\ Trim(ToChars(userId)) # <<>>
    THEN Trim(ToChars(userId))
    ELSE DefaultKey

(***************************************************************************)
(* Documents and the store.  updatedAt is null or a time stamp; the value  *)
(* of the clock is not modelled.                                           *)
(***************************************************************************)
Stamp == [t |-> "time"]
Doc(m, o, w, u) == [matchData |-> m, overlays |-> o, wagonData |-> w, updatedAt |-> u]

Has(store, k) == k \in DOMAIN store
Put(store, k, doc) == [x \in DOMAIN store \cup {k} |-> IF x = k THEN doc ELSE store[x]]

\* history: the Document of a tenant, the empty Document when the store has none
EmptyDoc == Doc(EmptyObj, EmptyObj, EmptyArr, Null)
Stored(store, k) == IF Has(store, k) THEN store[k] ELSE EmptyDoc

\* socket.io: the connections in room k
Members(k) == {c \in DOMAIN rooms : k \in rooms[c]}

\* io.emit(event, payload): a broadcast to every connection, whatever its room
BroadcastMsg(k, event, payload) ==
    [kind |-> "room", to |-> k, event |-> event, payload |-> payload, rcpt |-> DOMAIN rooms]

\* io.to(k).emit(event, payload) in place of socket.emit(event, payload)
SocketMsgToRoom(c, k, event, payload) ==
    [kind |-> "room", to |-> k, event |-> event, payload |-> payload, rcpt |-> Members(k)]

\* io.to(k).emit(event, payload) and socket.emit(event, payload)
RoomMsg(k, event, payload) ==
    [kind |-> "room", to |-> k, event |-> event, payload |-> payload, rcpt |-> Members(k)]
SocketMsg(c, k, event, payload) ==
    [kind |-> "socket", to |-> k, event |-> event, payload |-> payload, rcpt |-> {c}]

NoArgs == [userId |-> Undef, matchData |-> Undef, overlays |-> Undef, wagonData |-> Undef]

\* history: the handler that ran, its arguments, whether the same handler ran
\* with the same arguments just before, how many entries it queued, the
\* Document its tenant had when it started, and whether it threw
Ran(op, c, args, queued) ==
    [op |-> op, conn |-> c, args |-> args,
     repeat |-> (lastOp.op = op /\ lastOp.conn = c /\ lastOp.args = args),
     queued |-> queued,
     before |-> Stored(state, keyFor(args.userId)),
     threw |-> FALSE]

(***************************************************************************)
(* src/index.js lines 93-277: the "patch" server                           *)
(***************************************************************************)
\* the Document a GET /api/state/:userId returns (lines 124-128)
PatchDefaultDoc == Doc(Null, EmptyObj, EmptyArr, Null)
PatchGet(store, k) == IF Has(store, k) THEN store[k] ELSE PatchDefaultDoc

\* socket.on('join') (lines 177-184)
PatchJoin(c, userId) ==
    LET k == keyFor(userId)
        s == IF Has(state, k) THEN state[k] ELSE Doc(Null, EmptyObj, EmptyArr, Null)
    IN /\ server = "patch"
       /\ rooms' = [rooms EXCEPT ![c] = @ \cup {k}]
       /\ emitted' = <<SocketMsg(c, k, "match-update", s)>>
       /\ lastOp' = Ran("join", c, [NoArgs EXCEPT !.userId = userId], 0)
       /\ UNCHANGED <<server, state, pendingUpdates, owed, fnIn, fnOut>>

\* { ...a, ...b } where b is whatever the payload carried
SpreadAny(a, b) ==
    Obj([k \in DOMAIN a.f \cup ObjectKeys(b) |->
            IF k \in ObjectKeys(b) THEN GetProp(b, k) ELSE a.f[k]])

\* lines 214-222: the score keys whose value is not === the stored one
ScorePatch(prevMatch, matchData) ==
    LET stored == IF Truthy(prevMatch) THEN GetProp(prevMatch, Key("score")) ELSE prevMatch
        prevScore == IF Truthy(stored) THEN stored ELSE EmptyObj
        nextScore == GetProp(matchData, Key("score"))
        keys == ObjectKeys(prevScore) \cup ObjectKeys(nextScore)
        changed == {key \in keys :
                        StrictNotEqual(GetProp(nextScore, key), GetProp(prevScore, key))}
    IN Obj([key \in changed |-> GetProp(nextScore, key)])

\* line 227: op.path === 'matchData.score' || op.path.startsWith('matchData.score.')
UnderScore(path) ==
    /\ Len(path) >= 2
    /\ SubSeq(path, 1, 2) = <<"matchData", "score">>

NotUnderScore(op) == ~UnderScore(op.path)

\* lines 197-204: the ops of a publish-update
PatchOps(prev, matchData, overlays) ==
    (IF isPlainObject(matchData)
     THEN deepDiffOps(IF Truthy(prev.matchData) THEN prev.matchData ELSE EmptyObj,
                      matchData, Key("matchData"))
     ELSE <<>>)
    \o
    (IF isPlainObject(overlays)
     THEN deepDiffOps(IF Truthy(prev.overlays) THEN prev.overlays ELSE EmptyObj,
                      overlays, Key("overlays"))
     ELSE <<>>)

\* lines 214-234: what a publish-update emits, in order
PatchUpdateEmits(k, prev, matchData, overlays) ==
    LET ops == PatchOps(prev, matchData, overlays)
        hasScore == isPlainObject(matchData)
                    /\ isPlainObject(GetProp(matchData, Key("score")))
        scorePatch == ScorePatch(prev.matchData, matchData)
        sendScore == hasScore /\ ObjectKeys(scorePatch) # {}
        rest == IF sendScore THEN SelectSeq(ops, NotUnderScore) ELSE ops
    IN (IF sendScore THEN <<RoomMsg(k, "score-update", scorePatch)>> ELSE <<>>)
       \o (IF Len(rest) > 0 THEN <<RoomMsg(k, "state-patch", rest)>> ELSE <<>>)

\* socket.on('publish-update') (lines 186-235)
PatchPublishUpdate(userId, matchData, overlays) ==
    LET k == keyFor(userId)
        prev == IF Has(state, k) THEN state[k]
                ELSE Doc(EmptyObj, EmptyObj, EmptyArr, Undef)
        next == Doc(IF matchData # Undef THEN matchData
                    ELSE IF Truthy(prev.matchData) THEN prev.matchData ELSE EmptyObj,
                    IF overlays # Undef THEN SpreadAny(prev.overlays, overlays)
                    ELSE IF Truthy(prev.overlays) THEN prev.overlays ELSE EmptyObj,
                    prev.wagonData,
                    Stamp)
    IN /\ server = "patch"
       /\ state' = Put(state, k, next)
       /\ emitted' = PatchUpdateEmits(k, prev, matchData, overlays)
       /\ lastOp' = Ran("publish-update", "-",
                        [NoArgs EXCEPT !.userId = userId, !.matchData = matchData,
                                       !.overlays = overlays], 0)
       /\ UNCHANGED <<server, rooms, pendingUpdates, owed, fnIn, fnOut>>

\* lines 248-259: next extends prev without touching its elements
IsAppendOnly(oldArr, newArr) ==
    /\ Len(newArr.e) >= Len(oldArr.e)
    /\ \A i \in DOMAIN oldArr.e : JSONstringify(oldArr.e[i]) = JSONstringify(newArr.e[i])

\* lines 261-266: what a publish-wagon emits
PatchWagonEmits(k, oldArr, newArr) ==
    IF IsAppendOnly(oldArr, newArr) /\ Len(newArr.e) > Len(oldArr.e)
    THEN <<RoomMsg(k, "wagon-append",
                   [items |-> Arr(SubSeq(newArr.e, Len(oldArr.e) + 1, Len(newArr.e))),
                    startIndex |-> Len(oldArr.e)])>>
    ELSE <<RoomMsg(k, "wagon-update", [wagonData |-> newArr])>>

\* socket.on('publish-wagon') (lines 237-267)
PatchPublishWagon(userId, wagonData) ==
    LET k == keyFor(userId)
        prev == IF Has(state, k) THEN state[k]
                ELSE Doc(EmptyObj, EmptyObj, EmptyArr, Undef)
        nextWagon == IF IsArray(wagonData) THEN wagonData ELSE prev.wagonData
        oldArr == IF IsArray(prev.wagonData) THEN prev.wagonData ELSE EmptyArr
        newArr == IF IsArray(nextWagon) THEN nextWagon ELSE EmptyArr
    IN /\ server = "patch"
       /\ state' = Put(state, k, Doc(prev.matchData, prev.overlays, nextWagon, Stamp))
       /\ emitted' = PatchWagonEmits(k, oldArr, newArr)
       /\ lastOp' = Ran("publish-wagon", "-",
                        [NoArgs EXCEPT !.userId = userId, !.wagonData = wagonData], 0)
       /\ UNCHANGED <<server, rooms, pendingUpdates, owed, fnIn, fnOut>>


(***************************************************************************)
(* src/unnamed/part_000 and part_001: the batching servers                 *)
(***************************************************************************)
\* bound of the model: the most entries queued at once, over all tenants
MaxPending == 2

Queue(q, k) == IF k \in DOMAIN q /\ Truthy(Arr(q[k])) THEN q[k] ELSE <<>>

\* the number of entries queued, over all tenants (kept below MaxPending)
RECURSIVE SumLen(_, _)
SumLen(q, ks) ==
    IF ks = {} THEN 0
    ELSE LET k == CHOOSE x \in ks : TRUE IN Len(q[k]) + SumLen(q, ks \ {k})
Pending(q) == SumLen(q, DOMAIN q)

\* a scheduleUpdate that keeps only the newest entry of a tenant
scheduleUpdateLatest(q, userId, updateType, data) ==
    [x \in DOMAIN q \cup {userId} |->
        IF x = userId THEN <<[type |-> updateType, data |-> data]>> ELSE q[x]]

\* function scheduleUpdate(userId, updateType, data)
scheduleUpdate(q, userId, updateType, data) ==
    LET had == IF userId \in DOMAIN q THEN q[userId] ELSE <<>>
    IN [x \in DOMAIN q \cup {userId} |->
            IF x = userId THEN Append(had, [type |-> updateType, data |-> data])
            ELSE q[x]]

\* a flush that sends each tenant's entries newest first
FlushEmitsNewestFirst(q) ==
    LET users == SetToSeq(DOMAIN q)
        reversed(s) == [i \in DOMAIN s |-> s[Len(s) + 1 - i]]
        one(userId) ==
            IF Len(q[userId]) > 0
            THEN <<RoomMsg(userId, "bulk-update", reversed(q[userId]))>>
            ELSE <<>>
    IN Flatten([i \in DOMAIN users |-> one(users[i])])

\* the setInterval callback: one bulk-update per tenant with queued entries
FlushEmits(q) ==
    LET users == SetToSeq(DOMAIN q)
        one(userId) ==
            IF Len(q[userId]) > 0
            THEN <<RoomMsg(userId, "bulk-update", q[userId])>>
            ELSE <<>>
    IN Flatten([i \in DOMAIN users |-> one(users[i])])

\* a flush that leaves the sent entries in the queue
FlushKeep(q) == q

\* pendingUpdates[userId] = [] for every tenant of the queue
FlushQueue(q) == [userId \in DOMAIN q |-> <<>>]

\* history: an accepted entry is owed to its tenant until a bulk-update to
\* that tenant carries the owed entries; a tick that does not, ages them
Owe(k, type, data) ==
    Put(owed, k, Append(IF k \in DOMAIN owed THEN owed[k] ELSE <<>>,
                        [entry |-> [type |-> type, data |-> data], waited |-> 0]))

OwedEntries(k) ==
    IF k \in DOMAIN owed THEN [i \in DOMAIN owed[k] |-> owed[k][i].entry] ELSE <<>>

BulkTo(msgs, k) ==
    LET idx == SelectSeq([i \in DOMAIN msgs |-> i],
                         LAMBDA i : msgs[i].event = "bulk-update" /\ msgs[i].to = k)
    IN [j \in DOMAIN idx |-> msgs[idx[j]].payload]

Settle(msgs) ==
    [k \in DOMAIN owed |->
        IF Flatten(BulkTo(msgs, k)) = OwedEntries(k) THEN <<>>
        ELSE [i \in DOMAIN owed[k] |-> [owed[k][i] EXCEPT !.waited = @ + 1]]]

Flush ==
    /\ server \in {"batchDiff", "batchJson"}
    /\ emitted' = FlushEmits(pendingUpdates)
    /\ pendingUpdates' = FlushQueue(pendingUpdates)
    /\ owed' = Settle(emitted')
    /\ lastOp' = Ran("flush", "-", NoArgs, 0)
    /\ UNCHANGED <<server, state, rooms, fnIn, fnOut>>

BatchNewDoc == Doc(EmptyObj, EmptyObj, EmptyObj, Stamp)
Ensure(store, k) == IF Has(store, k) /\ Truthy(Obj(store[k])) THEN store ELSE Put(store, k, BatchNewDoc)

\* app.get("/api/state/:userId?") (part_000 lines 68-71)
BatchGet(store, k) == IF Has(store, k) THEN store[k] ELSE EmptyObj

\* socket.on("join") (part_000 lines 78-85, part_001 lines 57-64)
BatchJoin(c, userId) ==
    LET key == keyFor(userId)
        store == Ensure(state, key)
    IN /\ server \in {"batchDiff", "batchJson"}
       /\ state' = store
       /\ rooms' = [rooms EXCEPT ![c] = @ \cup {key}]
       /\ emitted' = <<SocketMsg(c, key, "init-state", store[key])>>
       /\ lastOp' = Ran("join", c, [NoArgs EXCEPT !.userId = userId], 0)
       /\ UNCHANGED <<server, pendingUpdates, owed, fnIn, fnOut>>

\* part_000 lines 94-110: the changes of a publish-update and the fields it stores
DiffChange(stored, given) ==
    IF Truthy(given) /\ ObjectKeys(diffObjects(stored, given)) # {}
    THEN [changed |-> TRUE, value |-> SpreadAny(stored, given),
          report |-> diffObjects(stored, given)]
    ELSE [changed |-> FALSE, value |-> stored, report |-> Undef]

\* a comparison that reports the change and leaves the stored field as it was
JsonChangeUnstored(stored, given) ==
    IF Truthy(given) /\ JSONstringify(given) # JSONstringify(stored)
    THEN [changed |-> TRUE, value |-> stored, report |-> given]
    ELSE [changed |-> FALSE, value |-> stored, report |-> Undef]

\* part_001 lines 72-80
JsonChange(stored, given) ==
    IF Truthy(given) /\ JSONstringify(given) # JSONstringify(stored)
    THEN [changed |-> TRUE, value |-> given, report |-> given]
    ELSE [changed |-> FALSE, value |-> stored, report |-> Undef]

Changes(m, o) ==
    Obj([key \in (IF m.changed THEN {Key("matchData")} ELSE {})
                 \cup (IF o.changed THEN {Key("overlays")} ELSE {}) |->
            IF key = Key("matchData") THEN m.report ELSE o.report])

\* socket.on("publish-update") (part_000 lines 88-117, part_001 lines 66-86)
BatchPublishUpdate(userId, matchData, overlays) ==
    LET key == keyFor(userId)
        store == Ensure(state, key)
        doc == store[key]
        m == IF server = "batchDiff" THEN DiffChange(doc.matchData, matchData)
             ELSE JsonChange(doc.matchData, matchData)
        o == IF server = "batchDiff" THEN DiffChange(doc.overlays, overlays)
             ELSE JsonChange(doc.overlays, overlays)
        changes == Changes(m, o)
        send == ObjectKeys(changes) # {}
    IN /\ server \in {"batchDiff", "batchJson"}
       /\ Pending(pendingUpdates) < MaxPending
       /\ state' = Put(store, key, Doc(m.value, o.value, doc.wagonData, Stamp))
       /\ pendingUpdates' = IF send THEN scheduleUpdate(pendingUpdates, key, "update", changes)
                            ELSE pendingUpdates
       /\ owed' = IF send THEN Owe(key, "update", changes) ELSE owed
       /\ emitted' = <<>>
       /\ lastOp' = Ran("publish-update", "-",
                        [NoArgs EXCEPT !.userId = userId, !.matchData = matchData,
                                       !.overlays = overlays],
                        IF send THEN 1 ELSE 0)
       /\ UNCHANGED <<server, rooms, fnIn, fnOut>>

\* socket.on("publish-wagon") (part_000 lines 120-131, part_001 lines 88-99)
BatchPublishWagon(userId, wagonData) ==
    LET key == keyFor(userId)
        store == Ensure(state, key)
        doc == store[key]
        send == Truthy(wagonData) /\ JSONstringify(wagonData) # JSONstringify(doc.wagonData)
        data == Obj(Field(Key("wagonData"), wagonData))
    IN /\ server \in {"batchDiff", "batchJson"}
       /\ Pending(pendingUpdates) < MaxPending
       /\ state' = IF send THEN Put(store, key, [doc EXCEPT !.wagonData = wagonData,
                                                            !.updatedAt = Stamp])
                   ELSE store
       /\ pendingUpdates' = IF send THEN scheduleUpdate(pendingUpdates, key, "wagon", data)
                            ELSE pendingUpdates
       /\ owed' = IF send THEN Owe(key, "wagon", data) ELSE owed
       /\ emitted' = <<>>
       /\ lastOp' = Ran("publish-wagon", "-",
                        [NoArgs EXCEPT !.userId = userId, !.wagonData = wagonData],
                        IF send THEN 1 ELSE 0)
       /\ UNCHANGED <<server, rooms, fnIn, fnOut>>

\* socket.on("disconnect"): the handlers only log; socket.io itself takes
\* the closed socket out of every room
Disconnect(c) ==
    /\ rooms[c] # {}
    /\ rooms' = [rooms EXCEPT ![c] = {}]
    /\ emitted' = <<>>
    /\ lastOp' = Ran("disconnect", c, NoArgs, 0)
    /\ UNCHANGED <<server, state, pendingUpdates, owed, fnIn, fnOut>>

(***************************************************************************)
(* The three servers under join, publish, disconnect and the flush timer   *)
(***************************************************************************)
Servers == {"patch", "batchDiff", "batchJson"}
Conns == {"c1", "c2"}

a == Key("a")
b == Key("b")
Obj1(k, v) == Obj(Field(k, v))
Obj2(k1, v1, k2, v2) == Obj(Field(k1, v1) @@ Field(k2, v2))

\* identifiers of two tenants: undefined is "default", " A" is "A"
UserIds == {Undef, Str(<<" ", "A">>)}
MatchInputs == {Obj1(Key("title"), Num(1)), Obj1(Key("title"), Num(2))}
OverlayInputs == {Undef}
WagonInputs == {Arr(<<Num(1)>>)}

InitServer ==
    /\ state = <<>>
    /\ rooms = [c \in Conns |-> {}]
    /\ pendingUpdates = <<>>
    /\ emitted = <<>>
    /\ owed = <<>>
    /\ lastOp = [op |-> "start", conn |-> "-", args |-> NoArgs, repeat |-> FALSE,
                 queued |-> 0, before |-> EmptyDoc, threw |-> FALSE]

Init ==
    /\ server \in Servers
    /\ InitServer
    /\ fnIn = <<>>
    /\ fnOut = <<>>

Join == \E c \in Conns, userId \in UserIds : PatchJoin(c, userId) \/ BatchJoin(c, userId)

PublishUpdate ==
    \E userId \in UserIds, matchData \in MatchInputs, overlays \in OverlayInputs :
        \/ PatchPublishUpdate(userId, matchData, overlays)
        \/ BatchPublishUpdate(userId, matchData, overlays)

PublishWagon ==
    \E userId \in UserIds, wagonData \in WagonInputs :
        \/ PatchPublishWagon(userId, wagonData)
        \/ BatchPublishWagon(userId, wagonData)

Leave == \E c \in Conns : Disconnect(c)

Next == Join \/ PublishUpdate \/ PublishWagon \/ Leave \/ Flush

Spec == Init /\ [][Next]_vars


(***************************************************************************)
(* Claims about the servers                                                *)
(***************************************************************************)
Tenants == {keyFor(userId) : userId \in UserIds}
Absent == [absent |-> TRUE]
StoreAt(store, k) == IF k \in DOMAIN store THEN store[k] ELSE Absent
IsPublish(op) == op \in {"publish-update", "publish-wagon"}
Batching == server \in {"batchDiff", "batchJson"}
OpKey(h) == keyFor(h.args.userId)
Get(store, k) == IF server = "patch" THEN PatchGet(store, k) ELSE BatchGet(store, k)

\* C1 (tenant isolation): every payload a publish for tenant A hands to
\* socket.io is addressed to A's room and received by exactly that room's
\* members; a flush tick hands a tenant's room only entries accepted from
\* publishes for that tenant; and a publish for A leaves the Document and
\* the queue of every other tenant as they were.
TenantIsolationStep ==
    /\ IsPublish(lastOp'.op) =>
          /\ \A i \in DOMAIN emitted' :
                /\ emitted'[i].kind = "room"
                /\ emitted'[i].to = OpKey(lastOp')
                /\ emitted'[i].rcpt = {c \in Conns : OpKey(lastOp') \in rooms'[c]}
          /\ \A k \in (DOMAIN state' \cup DOMAIN pendingUpdates' \cup Tenants) \ {OpKey(lastOp')} :
                /\ StoreAt(state', k) = StoreAt(state, k)
                /\ Queue(pendingUpdates', k) = Queue(pendingUpdates, k)
    /\ lastOp'.op = "flush" =>
          \A i \in DOMAIN emitted' :
                /\ emitted'[i].kind = "room"
                /\ emitted'[i].rcpt = {c \in Conns : emitted'[i].to \in rooms'[c]}
                /\ Range(emitted'[i].payload) \subseteq Range(OwedEntries(emitted'[i].to))

TenantIsolation == [][TenantIsolationStep]_vars

\* a publish for one tenant has just produced a payload while the other
\* tenant has a Document and a subscriber, and a flush tick has delivered to
\* one tenant while another connection sits in the other tenant's room
TenantIsolationWitness ==
    \/ /\ lastOp.op = "publish-update"
       /\ emitted # <<>>
       /\ \E k \in DOMAIN state : k # OpKey(lastOp) /\ Members(k) # {}
       /\ Members(OpKey(lastOp)) # {}
    \/ /\ lastOp.op = "flush"
       /\ Len(emitted) = 1
       /\ \E k \in DOMAIN state : k # emitted[1].to /\ Members(k) # {}
       /\ Members(emitted[1].to) # {}

\* C2 (batching bound): at a flush tick every tenant with entries accepted
\* since the previous tick gets exactly one bulk-update carrying all of them
\* in order, a tenant with none gets no message, and the batching servers
\* send nothing to a room between ticks.
BatchingStep ==
    /\ (Batching /\ lastOp'.op = "flush") =>
          /\ \A i \in DOMAIN emitted' :
                emitted'[i].event = "bulk-update" /\ emitted'[i].payload # <<>>
          /\ \A k \in DOMAIN owed \cup Tenants :
                BulkTo(emitted', k) =
                    IF OwedEntries(k) # <<>> THEN <<OwedEntries(k)>> ELSE <<>>
    /\ (Batching /\ IsPublish(lastOp'.op)) => emitted' = <<>>

BatchingBound == [][BatchingStep]_vars

\* a tick has just delivered a bulk-update of two entries to one tenant and
\* nothing to another tenant that has a Document
BatchingBoundWitness ==
    /\ lastOp.op = "flush"
    /\ Len(emitted) = 1
    /\ Len(emitted[1].payload) = 2
    /\ \E k \in DOMAIN state : k # emitted[1].to

\* C3 (bounded latency): every entry accepted by scheduleUpdate is in its
\* tenant's queue until the next flush tick and is delivered by that tick:
\* no accepted entry has ever waited through a tick, and none is missing
\* from the queue.
BoundedLatency ==
    Batching =>
        /\ \A k \in DOMAIN owed : \A i \in DOMAIN owed[k] : owed[k][i].waited = 0
        /\ \A k \in DOMAIN owed \cup DOMAIN pendingUpdates :
                Queue(pendingUpdates, k) = OwedEntries(k)

\* a tick has just delivered entries, so nothing is owed any more
BoundedLatencyWitness ==
    /\ lastOp.op = "flush"
    /\ emitted # <<>>
    /\ \A k \in DOMAIN owed : owed[k] = <<>>

\* C4 (single subscription): after a join the connection is a member of
\* exactly one tenant group, the one it joined last.
SingleSubscription ==
    lastOp.op = "join" => rooms[lastOp.conn] = {OpKey(lastOp)}

\* C5 (join snapshot): a join subscribes the caller to the room of the
\* normalized key and hands socket.io exactly one message, for the caller
\* alone, carrying the Document the store holds for that tenant; it queues
\* nothing and changes nobody else's membership.
JoinSnapshotStep ==
    lastOp'.op = "join" =>
        LET c == lastOp'.conn
            k == OpKey(lastOp')
        IN /\ k \in rooms'[c]
           /\ \A d \in Conns \ {c} : rooms'[d] = rooms[d]
           /\ Len(emitted') = 1
           /\ emitted'[1].kind = "socket"
           /\ emitted'[1].rcpt = {c}
           /\ emitted'[1].payload = Get(state', k)
           /\ (Has(state, k) => emitted'[1].payload = state[k])
           /\ pendingUpdates' = pendingUpdates

JoinSnapshot == [][JoinSnapshotStep]_vars

\* a connection has just joined a tenant that has been published to, while
\* the other connection was already in that room
JoinSnapshotWitness ==
    /\ lastOp.op = "join"
    /\ Has(state, OpKey(lastOp))
    /\ state[OpKey(lastOp)].matchData \notin {EmptyObj, Null}
    /\ Cardinality(Members(OpKey(lastOp))) = 2


(***************************************************************************)
(* deepDiffOps as a pure function: the arguments are drawn by InitDiff and *)
(* RunDeepDiffOps applies the function to them                             *)
(***************************************************************************)
MaxNum == 2

Nums == {Num(i) : i \in 1..MaxNum}
Leaves == {Null} \cup Nums \cup {EmptyArr} \cup {Arr(<<n>>) : n \in Nums}
Inner == {EmptyObj} \cup {Obj1(b, v) : v \in Leaves}
InnerNums == {Obj1(b, v) : v \in Nums}
DottedKey == <<"a", "b">>
EmptyKey == EmptyString

\* the object holding each given key whose value is not undefined
Mk(fields) == Obj([k \in {x \in DOMAIN fields : fields[x] # Undef} |-> fields[k]])

\* mappings whose keys are plain names, nested two deep
PlainMappings ==
    {Mk(Field(a, va) @@ Field(b, vb)) :
        va \in {Undef} \cup Leaves \cup Inner, vb \in {Undef} \cup Nums}
\* mappings that also use the key "a.b", the empty key "" and a key that
\* names an inherited property
OddMappings ==
    {Mk(Field(a, va) @@ Field(DottedKey, vd) @@ Field(EmptyKey, ve)
        @@ Field(Key("toString"), vi)) :
        va \in {Undef} \cup InnerNums, vd \in {Undef} \cup Nums,
        ve \in {Undef} \cup InnerNums, vi \in {Undef} \cup Nums}
DiffInputs == PlainMappings \cup OddMappings

NotRun == [ran |-> FALSE]

InitDiff ==
    /\ server = "patch"
    /\ InitServer
    /\ fnIn \in [prev : DiffInputs, next : DiffInputs]
    /\ fnOut = NotRun

RunDeepDiffOps ==
    /\ fnOut = NotRun
    /\ fnOut' = [ran |-> TRUE, ops |-> deepDiffOps(fnIn.prev, fnIn.next, EmptyString)]
    /\ UNCHANGED <<server, state, rooms, pendingUpdates, emitted, owed, lastOp, fnIn>>

NextDiff == RunDeepDiffOps

SpecDiff == InitDiff /\ [][NextDiff]_vars

(***************************************************************************)
(* Applying a patch, as a subscriber does: an operation's path is split on *)
(* "." and followed from the root; a value is set at the last segment, a   *)
(* tombstone (undefined) removes the field.                                *)
(***************************************************************************)
Without(obj, k) == Obj([x \in DOMAIN obj.f \ {k} |-> obj.f[x]])
With(obj, k, v) == Obj([x \in DOMAIN obj.f \cup {k} |-> IF x = k THEN v ELSE obj.f[x]])

RECURSIVE SetPath(_, _, _)
SetPath(obj, path, value) ==
    LET k == Key(Head(path))
        child == IF isPlainObject(GetProp(obj, k)) THEN GetProp(obj, k) ELSE EmptyObj
    IN IF Len(path) = 1
       THEN IF value = Undef THEN Without(obj, k) ELSE With(obj, k, value)
       ELSE With(obj, k, SetPath(child, Tail(path), value))

RECURSIVE ApplyOps(_, _)
ApplyOps(obj, ops) ==
    IF ops = <<>> THEN obj
    ELSE ApplyOps(SetPath(obj, Head(ops).path, Head(ops).value), Tail(ops))

\* the value found by following a path from the root, undefined if none
RECURSIVE Lookup(_, _)
Lookup(obj, path) ==
    IF path = <<>> THEN obj
    ELSE Lookup(GetProp(obj, Key(Head(path))), Tail(path))

\* every key of the mapping, at every depth, is a non-empty name without "."
\* that is not the name of an inherited property
RECURSIVE PlainKeys(_)
PlainKeys(v) ==
    isPlainObject(v) =>
        \A k \in DOMAIN v.f :
            Len(k) = 1 /\ k # EmptyKey /\ k \notin InheritedKeys /\ PlainKeys(v.f[k])

RoundTrips(prev, next, ops) ==
    /\ ApplyOps(prev, ops) = next
    /\ \A i \in DOMAIN ops : Lookup(prev, ops[i].path) # Lookup(next, ops[i].path)

MaxWagon == 2

score == Key("score")
home == Key("home")
title == Key("title")
ScoreInputs ==
    {Obj1(home, Num(1)), Obj1(home, Num(2)), Obj2(home, Num(1), Key("away"), Num(1)),
     Obj1(home, Arr(<<Num(1)>>))}
MatchRich ==
    {Undef, Obj1(title, Num(1)), Obj2(title, Num(1), score, Obj1(home, Num(1)))}
        \cup {Obj1(score, sc) : sc \in ScoreInputs}
OverlayRich == {Undef, Obj1(a, Num(1)), Obj1(a, Num(2)), Obj1(b, Num(1))}
WagonItems == {Num(1), Num(2)}
WagonRich == {Undef} \cup {Arr(w) : w \in UNION {[1..n -> WagonItems] : n \in 0..MaxWagon}}

InitPatch ==
    /\ server = "patch"
    /\ InitServer
    /\ fnIn = <<>>
    /\ fnOut = <<>>

PatchUpdate ==
    \E matchData \in MatchRich, overlays \in OverlayRich :
        PatchPublishUpdate(Undef, matchData, overlays)

PatchWagon == \E wagonData \in WagonRich : PatchPublishWagon(Undef, wagonData)

PatchSnapshot == \E c \in Conns : PatchJoin(c, Undef)

NextPatch == PatchUpdate \/ PatchWagon \/ PatchSnapshot

SpecPatch == InitPatch /\ [][NextPatch]_vars

\* the publish-update payload would change the stored matchData or overlays
Differs(doc, args) ==
    \/ args.matchData # Undef /\ args.matchData # doc.matchData
    \/ /\ args.overlays # Undef
       /\ \E key \in ObjectKeys(args.overlays) :
            GetProp(args.overlays, key) # GetProp(doc.overlays, key)

\* C6 (idempotence of publishUpdate): a publish-update whose payload differs
\* from the stored Document emits or queues something, and the same
\* publish-update repeated at once emits nothing and queues nothing.
IdempotentPublish ==
    lastOp.op = "publish-update" =>
        /\ Differs(lastOp.before, lastOp.args) => (emitted # <<>> \/ lastOp.queued > 0)
        /\ lastOp.repeat => (emitted = <<>> /\ lastOp.queued = 0)

\* C7 (publishSequence no-op): a publish-wagon whose sequence equals the
\* stored wagonData emits nothing and queues nothing.
NoOpOnSameWagon ==
    (lastOp.op = "publish-wagon" /\ lastOp.args.wagonData = lastOp.before.wagonData) =>
        (emitted = <<>> /\ lastOp.queued = 0)

IsPrefix(o, n) == Len(n) >= Len(o) /\ SubSeq(n, 1, Len(o)) = o
Events(msgs) == [i \in DOMAIN msgs |-> [event |-> msgs[i].event, payload |-> msgs[i].payload]]

\* C9 (append detection): when the published sequence N is the stored O with
\* k >= 0 elements appended, publish-wagon sends the tail N[len(O):] with
\* startIndex = len(O); otherwise it sends N whole as a full replacement.
AppendDetection ==
    (/\ server = "patch"
     /\ lastOp.op = "publish-wagon"
     /\ IsArray(lastOp.args.wagonData)) =>
        LET o == lastOp.before.wagonData.e
            n == lastOp.args.wagonData.e
        IN Events(emitted) =
              IF IsPrefix(o, n)
              THEN <<[event |-> "wagon-append",
                      payload |-> [items |-> Arr(SubSeq(n, Len(o) + 1, Len(n))),
                                   startIndex |-> Len(o)]]>>
              ELSE <<[event |-> "wagon-update", payload |-> [wagonData |-> Arr(n)]]>>

\* the score mapping of a matchData, empty when it has none
ScoreOf(matchData) ==
    IF isPlainObject(matchData) /\ isPlainObject(GetProp(matchData, score))
    THEN GetProp(matchData, score) ELSE EmptyObj
HasScore(matchData) ==
    isPlainObject(matchData) /\ isPlainObject(GetProp(matchData, score))
Own(obj, key) == IF key \in DOMAIN obj.f THEN obj.f[key] ELSE Undef
ChangedScore(before, after) ==
    {key \in DOMAIN before.f \cup DOMAIN after.f : Own(before, key) # Own(after, key)}
OfEvent(msgs, event) == SelectSeq(msgs, LAMBDA m : m.event = event)

\* C10 (score extraction exclusivity): when a publish-update carries a score
\* mapping in which a value differs from the stored one, the state-patch
\* holds no operation at or under matchData.score and the score-update maps
\* exactly the changed score keys to their new values; when no score value
\* changes there is no score-update.
ScoreExclusivity ==
    (server = "patch" /\ lastOp.op = "publish-update") =>
        LET before == ScoreOf(lastOp.before.matchData)
            after == ScoreOf(lastOp.args.matchData)
            changed == IF HasScore(lastOp.args.matchData)
                       THEN ChangedScore(before, after) ELSE {}
            patches == OfEvent(emitted, "state-patch")
            scores == OfEvent(emitted, "score-update")
        IN IF changed = {}
           THEN scores = <<>>
           ELSE /\ \A i \in DOMAIN patches :
                    \A j \in DOMAIN patches[i].payload :
                        ~UnderScore(patches[i].payload[j].path)
                /\ Len(scores) = 1
                /\ scores[1].payload = Obj([key \in changed |-> Own(after, key)])


(***************************************************************************)
(* Further claims about the servers                                        *)
(***************************************************************************)
\* the values a payload sets, each with the path it sets it at
RECURSIVE Settings(_, _)
Settings(v, base) ==
    IF isPlainObject(v)
    THEN UNION {Settings(v.f[k], base \o k) : k \in DOMAIN v.f}
    ELSE IF v = Undef THEN {} ELSE {[path |-> base, value |-> v]}

\* a Document as the mapping a reader of GET /api/state receives
DocObj(doc) ==
    Obj(Field(Key("matchData"), doc.matchData) @@ Field(Key("overlays"), doc.overlays)
        @@ Field(Key("wagonData"), doc.wagonData))

Holds(doc, s) == Lookup(DocObj(doc), s.path) = s.value

\* every value the message carries is in the Document, or a later entry of
\* the same bulk-update has set its path again
Reflects(msg, doc) ==
    CASE msg.event = "state-patch" ->
            \A i \in DOMAIN msg.payload :
                msg.payload[i].value # Undef => Holds(doc, msg.payload[i])
      [] msg.event = "score-update" ->
            \A s \in Settings(msg.payload, <<"matchData", "score">>) : Holds(doc, s)
      [] msg.event = "wagon-update" -> doc.wagonData = msg.payload.wagonData
      [] msg.event = "wagon-append" ->
            /\ IsArray(doc.wagonData)
            /\ SubSeq(doc.wagonData.e, msg.payload.startIndex + 1, Len(doc.wagonData.e))
                    = msg.payload.items.e
      [] msg.event = "bulk-update" ->
            \A i \in DOMAIN msg.payload :
                \A s \in Settings(msg.payload[i].data, <<>>) :
                    \/ Holds(doc, s)
                    \/ \E j \in DOMAIN msg.payload :
                            /\ j > i
                            /\ \E t \in Settings(msg.payload[j].data, <<>>) : t.path = s.path
      [] OTHER -> TRUE

\* C11 (commit before broadcast): whenever a payload has been handed to a
\* tenant's room, the Document a get of that tenant returns already holds
\* every value the payload sets (or a value a later publish has put in its
\* place): the store is written before the emit and before the flush.
CommitBeforeBroadcast ==
    \A i \in DOMAIN emitted :
        emitted[i].kind = "room" => Reflects(emitted[i], Stored(state, emitted[i].to))

\* a tick has just delivered two entries of one tenant, the first of them
\* overwritten by the second before the tick
CommitBeforeBroadcastWitness ==
    /\ lastOp.op = "flush"
    /\ \E i \in DOMAIN emitted :
            /\ Len(emitted[i].payload) = 2
            /\ \E s \in Settings(emitted[i].payload[1].data, <<>>) :
                    ~Holds(Stored(state, emitted[i].to), s)

\* C12 (lazy Document existence): a join to a tenant that was never written
\* delivers the empty Document matchData={}, overlays={}, wagonData=[],
\* updatedAt=null; from then on the store holds a Document for the tenant,
\* and a get returns the Document the join delivered.
LazyDocument ==
    (lastOp.op = "join" /\ lastOp.before = EmptyDoc) =>
        /\ Len(emitted) = 1
        /\ emitted[1].payload = EmptyDoc
        /\ Has(state, OpKey(lastOp))
        /\ Get(state, OpKey(lastOp)) = emitted[1].payload


(***************************************************************************)
(* The three servers, one tenant, under payloads of every shape: fields    *)
(* missing, fields of the wrong type, and no payload at all                *)
(***************************************************************************)
ShapeMatch == {Undef, Num(1), Obj1(title, Num(1))}
ShapeOverlays ==
    {Undef, Num(1), Obj1(a, Num(1)), Obj1(b, Num(1)), Obj1(a, Obj1(b, Num(1))),
     Obj1(a, EmptyObj)}
ShapeWagons == {Undef, Num(1), Arr(<<Num(1)>>), Arr(<<Num(1), Num(2)>>)}
BarePayloads == {Undef, Null}
PublishEvents == {"publish-update", "publish-wagon"}

\* (payload = {}) => ...: the default stands in for an undefined argument only
WithDefault(payload) == IF payload = Undef THEN EmptyObj ELSE payload

\* const { userId, ... } = payload and ({ userId, ... }) => ...: destructuring
\* undefined or null throws a TypeError
Destructures(payload) == payload \notin {Undef, Null}

\* a publish whose argument cannot be destructured: the handler throws before
\* its first statement.  (What the process does with the uncaught exception
\* is not modelled: the variables stay as they were.)
PublishThrows(event, payload) ==
    /\ ~Destructures(IF server = "patch" THEN WithDefault(payload) ELSE payload)
    /\ emitted' = <<>>
    /\ lastOp' = [Ran(event, "-", NoArgs, 0) EXCEPT !.threw = TRUE]
    /\ UNCHANGED <<server, state, rooms, pendingUpdates, owed, fnIn, fnOut>>

InitShapes ==
    /\ server \in Servers
    /\ InitServer
    /\ fnIn = <<>>
    /\ fnOut = <<>>

ShapeUpdate ==
    \E matchData \in ShapeMatch, overlays \in ShapeOverlays :
        \/ PatchPublishUpdate(Undef, matchData, overlays)
        \/ BatchPublishUpdate(Undef, matchData, overlays)

ShapeWagon ==
    \E wagonData \in ShapeWagons :
        \/ PatchPublishWagon(Undef, wagonData)
        \/ BatchPublishWagon(Undef, wagonData)

ShapeBare == \E event \in PublishEvents, payload \in BarePayloads : PublishThrows(event, payload)

ShapeJoin == PatchJoin("c1", Undef) \/ BatchJoin("c1", Undef)

NextShapes == ShapeUpdate \/ ShapeWagon \/ ShapeBare \/ ShapeJoin \/ Flush

SpecShapes == InitShapes /\ [][NextShapes]_vars

\* { ...S, ...P } as the claim states it
Merged(S, P) ==
    Obj([k \in DOMAIN S.f \cup DOMAIN P.f |-> IF k \in DOMAIN P.f THEN P.f[k] ELSE S.f[k]])

\* C13 (shallow merge of overlays): after a publish-update that carries an
\* overlays mapping P on a tenant whose stored overlays is the mapping S, the
\* stored overlays is S with P's keys laid over it.
ShallowMerge ==
    (/\ lastOp.op = "publish-update"
     /\ ~lastOp.threw
     /\ isPlainObject(lastOp.args.overlays)
     /\ isPlainObject(lastOp.before.overlays)) =>
        state[OpKey(lastOp)].overlays = Merged(lastOp.before.overlays, lastOp.args.overlays)

\* C14 (no hard failure on malformed input): no publish handler throws.
NoHardFailure == ~lastOp.threw

\* C15 (missing fields are not updated): on a tenant that has a Document, a
\* publish-update leaves wagonData and every field the payload does not
\* supply as they were; a publish-wagon leaves matchData and overlays as they
\* were, and without a sequence in the payload it leaves wagonData as it was
\* and delivers and queues nothing.
MissingFieldsKept ==
    (~lastOp.threw /\ lastOp.before # EmptyDoc) =>
        LET doc == state[OpKey(lastOp)]
            was == lastOp.before
        IN /\ lastOp.op = "publish-update" =>
                /\ doc.wagonData = was.wagonData
                /\ lastOp.args.matchData = Undef => doc.matchData = was.matchData
                /\ lastOp.args.overlays = Undef => doc.overlays = was.overlays
           /\ lastOp.op = "publish-wagon" =>
                /\ doc.matchData = was.matchData
                /\ doc.overlays = was.overlays
                /\ ~IsArray(lastOp.args.wagonData) =>
                        /\ doc.wagonData = was.wagonData
                        /\ emitted = <<>>
                        /\ lastOp.queued = 0


(***************************************************************************)
(* keyFor as a pure function: InitKey draws two identifiers and RunKeyFor  *)
(* applies keyFor to each, and to the first result again                   *)
(***************************************************************************)
MaxIdLen == 3

IdChars == {" ", "A"}
Ids ==
    {Undef, Null, Num(0), Num(1)}
        \cup {Str(chars) : chars \in UNION {[1..n -> IdChars] : n \in 0..MaxIdLen}}

InitKey ==
    /\ server = "patch"
    /\ InitServer
    /\ fnIn \in [x : Ids, y : Ids]
    /\ fnOut = NotRun

RunKeyFor ==
    /\ fnOut = NotRun
    /\ fnOut' = [ran |-> TRUE, x |-> keyFor(fnIn.x), y |-> keyFor(fnIn.y),
                 again |-> keyFor(Str(keyFor(fnIn.x)))]
    /\ UNCHANGED <<server, state, rooms, pendingUpdates, emitted, owed, lastOp, fnIn>>

NextKey == RunKeyFor

SpecKey == InitKey /\ [][NextKey]_vars

\* the identifier written as a string, without its leading and trailing spaces
Stripped(id) ==
    LET chars == ToChars(id)
        inked == {i \in DOMAIN chars : ~IsSpace(chars[i])}
    IN IF inked = {} THEN <<>>
       ELSE SubSeq(chars, CHOOSE i \in inked : \A j \in inked : i <= j,
                          CHOOSE i \in inked : \A j \in inked : i >= j)

\* the identifier is absent, or an empty or whitespace-only string
Blank(id) == id \in {Undef, Null} \/ (id.t = "string" /\ Stripped(id) = <<>>)

\* C16 (tenant key normalization): keyFor gives "default" for an absent,
\* empty or whitespace-only identifier and the whitespace-trimmed string of
\* every other identifier; identifiers that differ only in surrounding
\* whitespace get the same key; and keyFor of a key is that key.
KeyNormalization ==
    fnOut.ran =>
        /\ fnOut.x = IF Blank(fnIn.x) THEN DefaultKey ELSE Stripped(fnIn.x)
        /\ (~Blank(fnIn.x) /\ ~Blank(fnIn.y) /\ Stripped(fnIn.x) = Stripped(fnIn.y))
                => fnOut.x = fnOut.y
        /\ fnOut.again = fnOut.x


(***************************************************************************)
(* Further claims about deepDiffOps (specification SpecDiff)               *)
(***************************************************************************)
Kind(v) == IF isPlainObject(v) THEN "mapping" ELSE IF IsArray(v) THEN "sequence" ELSE "scalar"
HasPrefix(path, pre) == Len(path) >= Len(pre) /\ SubSeq(path, 1, Len(pre)) = pre
At(ops, path) == {i \in DOMAIN ops : ops[i].path = path}
Under(ops, path) == {i \in DOMAIN ops : HasPrefix(ops[i].path, path)}

\* the three edge cases, for the keys of one pair of mappings found at base
EdgeCasesAt(prev, next, base, ops) ==
    \A k \in DOMAIN prev.f \cup DOMAIN next.f :
        LET path == base \o k
        IN /\ (k \in DOMAIN prev.f /\ k \notin DOMAIN next.f) =>
                Cardinality({i \in At(ops, path) : ops[i].value = Undef}) = 1
           /\ (/\ k \in DOMAIN next.f
               /\ next.f[k] = Null
               /\ (k \in DOMAIN prev.f => prev.f[k] # Null)) =>
                /\ Cardinality(At(ops, path)) = 1
                /\ \A i \in At(ops, path) : ops[i].value = Null
           /\ (/\ k \in DOMAIN prev.f
               /\ k \in DOMAIN next.f
               /\ Kind(prev.f[k]) # Kind(next.f[k])) =>
                /\ Cardinality(Under(ops, path)) = 1
                /\ \A i \in Under(ops, path) : ops[i] = addOp(path, next.f[k])

\* the edge cases at the top of the two mappings and one level down
EdgeCases(prev, next, ops) ==
    /\ EdgeCasesAt(prev, next, <<>>, ops)
    /\ \A k \in DOMAIN prev.f \cap DOMAIN next.f :
            (isPlainObject(prev.f[k]) /\ isPlainObject(next.f[k])) =>
                EdgeCasesAt(prev.f[k], next.f[k], k, ops)

wagon == Key("wagonData")

\* score-update: the payload's keys laid over matchData.score, a key whose
\* value is undefined removed
ApplyScore(replica, patch) ==
    LET md == GetProp(replica, Key("matchData"))
        sc == IF isPlainObject(md) /\ isPlainObject(GetProp(md, score))
              THEN GetProp(md, score) ELSE EmptyObj
        gone == {k \in DOMAIN patch.f : patch.f[k] = Undef}
        merged == Obj([k \in (DOMAIN sc.f \cup DOMAIN patch.f) \ gone |->
                          IF k \in DOMAIN patch.f THEN patch.f[k] ELSE sc.f[k]])
    IN SetPath(replica, <<"matchData", "score">>, merged)

ApplyMsg(replica, msg) ==
    CASE msg.event = "state-patch" -> ApplyOps(replica, msg.payload)
      [] msg.event = "score-update" -> ApplyScore(replica, msg.payload)
      [] msg.event = "wagon-update" -> With(replica, wagon, msg.payload.wagonData)
      [] msg.event = "wagon-append" ->
            With(replica, wagon,
                 Arr(SubSeq(GetProp(replica, wagon).e, 1, msg.payload.startIndex)
                        \o msg.payload.items.e))
      [] OTHER -> replica

RECURSIVE ApplyMsgs(_, _)
ApplyMsgs(replica, msgs) ==
    IF msgs = <<>> THEN replica
    ELSE ApplyMsgs(ApplyMsg(replica, Head(msgs)), Tail(msgs))

\* C18 (replica convergence): a replica that equals the tenant's Document
\* before a publish, and applies in order the payloads the publish delivers
\* to the tenant's room, equals the tenant's Document after the publish in
\* matchData, overlays and wagonData.  (By C5 a replica starts as the stored
\* Document, so this step keeps it equal after every delivery.)
ReplicaConvergence ==
    (server = "patch" /\ IsPublish(lastOp.op) /\ lastOp.before # EmptyDoc) =>
        ApplyMsgs(DocObj(lastOp.before), emitted) = DocObj(state[OpKey(lastOp)])


(***************************************************************************)
(* The pending queue (specification Spec)                                  *)
(***************************************************************************)
\* C19 (pending queue discipline): a publish only appends to its own
\* tenant's pending sequence; a flush tick sends each tenant's pending
\* sequence whole and in order in at most one bulk-update and leaves every
\* pending sequence empty; nothing else touches the queue.  So an entry is
\* in exactly one bulk-update, that of the first tick after its enqueue.
PendingDisciplineStep ==
    Batching =>
        LET keys == DOMAIN pendingUpdates \cup DOMAIN pendingUpdates' \cup Tenants
        IN /\ lastOp'.op = "flush" =>
                \A k \in keys :
                    /\ Queue(pendingUpdates', k) = <<>>
                    /\ Len(BulkTo(emitted', k)) <= 1
                    /\ Flatten(BulkTo(emitted', k)) = Queue(pendingUpdates, k)
           /\ IsPublish(lastOp'.op) =>
                \A k \in keys :
                    \/ Queue(pendingUpdates', k) = Queue(pendingUpdates, k)
                    \/ /\ k = OpKey(lastOp')
                       /\ Len(Queue(pendingUpdates', k)) = Len(Queue(pendingUpdates, k)) + 1
                       /\ SubSeq(Queue(pendingUpdates', k), 1, Len(Queue(pendingUpdates, k)))
                            = Queue(pendingUpdates, k)
           /\ lastOp'.op \in {"join", "disconnect"} =>
                \A k \in keys : Queue(pendingUpdates', k) = Queue(pendingUpdates, k)

PendingDiscipline == [][PendingDisciplineStep]_vars

\* a tick has just sent one tenant a wagon entry followed by an update entry
\* and has left every pending sequence empty
PendingDisciplineWitness ==
    /\ lastOp.op = "flush"
    /\ \E i \in DOMAIN emitted :
            /\ Len(emitted[i].payload) = 2
            /\ emitted[i].payload[1].type = "wagon"
            /\ emitted[i].payload[2].type = "update"
    /\ \A k \in DOMAIN pendingUpdates : pendingUpdates[k] = <<>>

====
